---- MODULE Spec2Model ----
(***************************************************************************)
(* Model of the oregon-trail reducer (src/src/main.rs): the State record,  *)
(* the Action variants, root_reducer, the redux store that main builds on  *)
(* it, and main's single read-match-dispatch pass.                         *)
(*                                                                         *)
(* Numbers.  The u64 fields are 64 bits wide and TLC's integers are not,   *)
(* so a u64 is stored as the integer with the same 64 bits read in two's   *)
(* complement: x >= 0 stands for x, and x < 0 stands for 2^64 + x.  On     *)
(* this representation wrapping addition and subtraction are the integer   *)
(* ones, and the unsigned order is U64Lt.  All values of the model stay    *)
(* within 2^31 of 0 (or of 2^64).                                          *)
(*                                                                         *)
(* Dates.  A Date<Utc> is stored as its day number from 0001-01-01 (day 1) *)
(* in the proleptic Gregorian calendar, as computed by ymd.  A Duration is *)
(* stored as its whole number of days, the only part Date + Duration uses. *)
(***************************************************************************)
EXTENDS Integers, Sequences, FiniteSets, TLC

VARIABLES state, prev, last, calls, panicked, overflow_checks, reduced,
          pc, user_input, read_ok, reads, output

vars == <<state, prev, last, calls, panicked, overflow_checks, reduced,
          pc, user_input, read_ok, reads, output>>

storeVars == <<state, prev, last, calls, panicked, reduced>>
mainVars == <<pc, user_input, read_ok, reads, output>>
mainVarsButPc == <<user_input, read_ok, reads, output>>

(***************************************************************************)
(* Bounds of the model                                                     *)
(***************************************************************************)
\* number of reducer applications explored from one initial state
MaxSteps == 2

(***************************************************************************)
(* Calendar: Utc.ymd(y, m, d)                                              *)
(***************************************************************************)
IsLeapYear(y) == (y % 4 = 0 /\ y % 100 # 0) \/ y % 400 = 0

DaysInMonth(y, m) ==
    IF m = 2 THEN (IF IsLeapYear(y) THEN 29 ELSE 28)
    ELSE IF m \in {4, 6, 9, 11} THEN 30 ELSE 31

RECURSIVE DaysBeforeMonth(_, _)
DaysBeforeMonth(y, m) ==
    IF m = 1 THEN 0 ELSE DaysBeforeMonth(y, m - 1) + DaysInMonth(y, m - 1)

DaysBeforeYear(y) ==
    365 * (y - 1) + ((y - 1) \div 4) - ((y - 1) \div 100) + ((y - 1) \div 400)

ymd(y, m, d) == DaysBeforeYear(y) + DaysBeforeMonth(y, m) + d

(***************************************************************************)
(* u64 arithmetic on the two's complement representation                   *)
(***************************************************************************)
U64Lt(a, b) == IF (a < 0) = (b < 0) THEN a < b ELSE b < 0
U64Le(a, b) == a = b \/ U64Lt(a, b)
\* a - b leaves the u64 range
U64SubOverflows(a, b) == U64Lt(a, b)
\* a + b leaves the u64 range (b a small non-negative literal)
U64AddOverflows(a, b) == a < 0 /\ a + b >= 0
U64WrappingSub(a, b) == a - b
U64WrappingAdd(a, b) == a + b

(***************************************************************************)
(* State and Action                                                        *)
(***************************************************************************)
MaxHealth == 5
HuntFood == 100

MkState(date, miles, food, health, hunt_days) ==
    [date |-> date, miles |-> miles, food |-> food, health |-> health,
     hunt_days |-> hunt_days]

Travel(days, distance) == [type |-> "Travel", days |-> days, distance |-> distance]
Rest(days) == [type |-> "Rest", days |-> days]
Hunt == [type |-> "Hunt"]
Status(f) == [type |-> "Status", f |-> f]
Help(f) == [type |-> "Help", f |-> f]
Quit(f) == [type |-> "Quit", f |-> f]
NoAction == [type |-> "None"]

\* The callbacks handed to Status, Help and Quit.  "identity" is the tests'
\* mock (it records the call and returns its argument); "eat" is a callback
\* that returns a changed state, which the Fn(State) -> State type permits.
Callbacks == {"identity", "eat"}
CallCallback(f, s) == IF f = "identity" THEN s ELSE [s EXCEPT !.food = 0]

(***************************************************************************)
(* root_reducer.  The result is either a panic (an arithmetic overflow in  *)
(* a build with overflow checks) or the returned State together with the   *)
(* callback invocations made on the way.                                   *)
(***************************************************************************)
Returned(s, invoked) == [panic |-> FALSE, state |-> s, calls |-> invoked]
Panic(s) == [panic |-> TRUE, state |-> s, calls |-> <<>>]

AddDurationBackwards(date, days) == date - days
\* Date<Utc> + Duration
AddDuration(date, days) == date + days

TravelArmAdds(s, days, distance, checks) ==
    Returned([s EXCEPT !.date = AddDuration(s.date, days),
                       !.miles = U64WrappingAdd(s.miles, distance)], <<>>)
TravelArm(s, days, distance, checks) ==
    IF checks /\ U64SubOverflows(s.miles, distance)
    THEN Panic(s)
    ELSE Returned([s EXCEPT !.date = AddDuration(s.date, days),
                            !.miles = U64WrappingSub(s.miles, distance)], <<>>)

RestArmNoCeiling(s, days) ==
    Returned([s EXCEPT !.date = AddDuration(s.date, days),
                       !.health = s.health + 1], <<>>)
RestArmCeilingOffByOne(s, days) ==
    Returned([s EXCEPT !.date = AddDuration(s.date, days),
                       !.health = IF U64Le(s.health, MaxHealth)
                                  THEN s.health + 1 ELSE s.health], <<>>)
RestArm(s, days) ==
    Returned([s EXCEPT !.date = AddDuration(s.date, days),
                       !.health = IF U64Lt(s.health, MaxHealth)
                                  THEN s.health + 1 ELSE s.health], <<>>)

HuntArmFixedDays(s, checks) ==
    Returned([s EXCEPT !.date = AddDuration(s.date, 2),
                       !.food = U64WrappingAdd(s.food, HuntFood)], <<>>)
HuntArm(s, checks) ==
    IF checks /\ U64AddOverflows(s.food, HuntFood)
    THEN Panic(s)
    ELSE Returned([s EXCEPT !.date = AddDuration(s.date, s.hunt_days),
                            !.food = U64WrappingAdd(s.food, HuntFood)], <<>>)

CallbackArmSkipsCall(s, f) == Returned(s, <<>>)
\* Status, Help and Quit: the boxed function is called on a copy of the state
CallbackArm(s, f) == Returned(CallCallback(f, s), <<[f |-> f, arg |-> s]>>)

root_reducer(s, action, checks) ==
    CASE action.type = "Travel" -> TravelArm(s, action.days, action.distance, checks)
      [] action.type = "Rest"   -> RestArm(s, action.days)
      [] action.type = "Hunt"   -> HuntArm(s, checks)
      [] action.type = "Status" -> CallbackArm(s, action.f)
      [] action.type = "Help"   -> CallbackArm(s, action.f)
      [] action.type = "Quit"   -> CallbackArm(s, action.f)

(***************************************************************************)
(* The store: Store::new(root_reducer, inital_state) and store.dispatch    *)
(***************************************************************************)
inital_state == MkState(ymd(2020, 3, 1), 2000, 500, 5, 2)

\* dispatch replaces the store's state by the reducer's result; a panic
\* unwinds out of dispatch and leaves the process dead
dispatch(action) ==
    LET r == root_reducer(state, action, overflow_checks) IN
    /\ ~panicked
    /\ prev' = state
    /\ last' = action
    /\ reduced' = reduced + 1
    /\ calls' = r.calls
    /\ panicked' = r.panic
    /\ state' = r.state
    /\ UNCHANGED overflow_checks

(***************************************************************************)
(* Inputs                                                                  *)
(***************************************************************************)
\* whole days of the Duration argument (Duration is signed)
Durations == {-1, 0, 2, 3, 4}
\* the u64 distance argument
Distances == {0, 30, 40, 2000, 2001}

DateInputs == {ymd(2020, 3, 1), ymd(2020, 12, 30)}
MilesInputs == {0, 30, 1970, 2000}
FoodInputs == {0, 500}
HealthInputs == {0, 4, 5}
HuntDaysInputs == {-1, 2, 3}

StateInputs ==
    {MkState(d, m, fo, h, hd) : d \in DateInputs, m \in MilesInputs,
                                fo \in FoodInputs, h \in HealthInputs,
                                hd \in HuntDaysInputs}

(***************************************************************************)
(* Reducer applications                                                    *)
(***************************************************************************)
DoTravel(days, distance) ==
    /\ pc = "store" /\ reduced < MaxSteps
    /\ dispatch(Travel(days, distance))
    /\ UNCHANGED mainVars

DoRest(days) ==
    /\ pc = "store" /\ reduced < MaxSteps
    /\ dispatch(Rest(days))
    /\ UNCHANGED mainVars

DoHunt ==
    /\ pc = "store" /\ reduced < MaxSteps
    /\ dispatch(Hunt)
    /\ UNCHANGED mainVars

DoStatus(f) ==
    /\ pc = "store" /\ reduced < MaxSteps
    /\ dispatch(Status(f))
    /\ UNCHANGED mainVars

DoHelp(f) ==
    /\ pc = "store" /\ reduced < MaxSteps
    /\ dispatch(Help(f))
    /\ UNCHANGED mainVars

DoQuit(f) ==
    /\ pc = "store" /\ reduced < MaxSteps
    /\ dispatch(Quit(f))
    /\ UNCHANGED mainVars

StoreInit(s) ==
    /\ state = s
    /\ prev = s
    /\ last = NoAction
    /\ calls = <<>>
    /\ panicked = FALSE
    /\ overflow_checks \in BOOLEAN
    /\ reduced = 0

IdleMain ==
    /\ user_input = <<>>
    /\ read_ok = TRUE
    /\ reads = 0
    /\ output = <<>>

\* The game: the store of main, driven by any sequence of actions whose
\* callbacks are the identity.
Init ==
    /\ StoreInit(inital_state)
    /\ pc = "store"
    /\ IdleMain

Next ==
    \/ \E d \in Durations, m \in Distances : DoTravel(d, m)
    \/ \E d \in Durations : DoRest(d)
    \/ DoHunt
    \/ DoStatus("identity")
    \/ DoHelp("identity")
    \/ DoQuit("identity")

Spec == Init /\ [][Next]_vars

\* The reducer as a function: any State, any Action.
InitReducer ==
    /\ \E s \in StateInputs : StoreInit(s)
    /\ pc = "store"
    /\ IdleMain

NextReducer ==
    \/ \E d \in Durations, m \in Distances : DoTravel(d, m)
    \/ \E d \in Durations : DoRest(d)
    \/ DoHunt
    \/ \E f \in Callbacks : DoStatus(f)
    \/ \E f \in Callbacks : DoHelp(f)
    \/ \E f \in Callbacks : DoQuit(f)

SpecReducer == InitReducer /\ [][NextReducer]_vars

(***************************************************************************)
(* main: one line is read and matched, at most one action is dispatched    *)
(***************************************************************************)
\* a line is the sequence of its characters
TravelLiteral == <<"t", "r", "a", "v", "e", "l">>

\* what read_line may leave in user_input: the text up to and including the
\* newline, or up to the end of the input when no newline comes
Lines ==
    {TravelLiteral,
     TravelLiteral \o <<"\n">>,
     TravelLiteral \o <<"\r", "\n">>,
     <<" ">> \o TravelLiteral,
     <<"T", "r", "a", "v", "e", "l">>,
     <<"h", "u", "n", "t", "\n">>,
     <<"\n">>,
     <<>>}

Whitespace == {" ", "\n", "\r", "\t"}

RECURSIVE TrimEnd(_)
TrimEnd(line) ==
    IF line # <<>> /\ line[Len(line)] \in Whitespace
    THEN TrimEnd(SubSeq(line, 1, Len(line) - 1))
    ELSE line

MatchesTravelTrimmed(line) == TrimEnd(line) = TravelLiteral
\* the match arm "travel" of match &user_input[..]
MatchesTravel(line) == line = TravelLiteral

gen_range_inclusive(low, high) == low .. high
\* rand's gen_range(low, high): uniform over the half-open range [low, high)
gen_range(low, high) == low .. (high - 1)

Prompt == [msg |-> "What is your action?"]
Unimplemented(action) == [msg |-> "unable to implement action", action |-> action]
ReadError == [msg |-> "The Rust language gave the error"]

\* println!("What is your action?")
MainPrompt ==
    /\ pc = "main"
    /\ output' = Append(output, Prompt)
    /\ pc' = "read_line"
    /\ UNCHANGED <<storeVars, overflow_checks, user_input, read_ok, reads>>

\* io::stdin().read_line(&mut user_input) returns Ok
MainReadLineOk ==
    /\ pc = "read_line"
    /\ \E line \in Lines : user_input' = user_input \o line
    /\ read_ok' = TRUE
    /\ reads' = reads + 1
    /\ pc' = "match"
    /\ UNCHANGED <<storeVars, overflow_checks, output>>

\* io::stdin().read_line(&mut user_input) returns Err
MainReadLineErr ==
    /\ pc = "read_line"
    /\ read_ok' = FALSE
    /\ reads' = reads + 1
    /\ pc' = "match"
    /\ UNCHANGED <<storeVars, overflow_checks, user_input, output>>

\* "travel" => store.dispatch(Action::Travel(days, distance))
MainTravel ==
    /\ pc = "match" /\ read_ok /\ MatchesTravel(user_input)
    /\ \E days \in gen_range(3, 7), distance \in gen_range(30, 60) :
           dispatch(Travel(days, distance))
    /\ pc' = "done"
    /\ UNCHANGED mainVarsButPc

\* action => println!("Uh oh! ... unable to implement action {}. ...", action)
MainUnimplemented ==
    /\ pc = "match" /\ read_ok /\ ~MatchesTravel(user_input)
    /\ output' = Append(output, Unimplemented(user_input))
    /\ pc' = "done"
    /\ UNCHANGED <<storeVars, overflow_checks, user_input, read_ok, reads>>

\* Err(error) => println!("Hmm, ... The Rust language gave the error {}.", error)
MainReadError ==
    /\ pc = "match" /\ ~read_ok
    /\ output' = Append(output, ReadError)
    /\ pc' = "done"
    /\ UNCHANGED <<storeVars, overflow_checks, user_input, read_ok, reads>>

InitMain ==
    /\ StoreInit(inital_state)
    /\ pc = "main"
    /\ IdleMain

NextMain ==
    \/ MainPrompt
    \/ MainReadLineOk
    \/ MainReadLineErr
    \/ MainTravel
    \/ MainUnimplemented
    \/ MainReadError

SpecMain == InitMain /\ [][NextMain]_vars

(***************************************************************************)
(* Properties                                                              *)
(***************************************************************************)
Applied(type) == reduced > 0 /\ last.type = type

\* C1: Travel(d, m) with m <= s.miles returns miles = s.miles - m and
\* date = s.date + d, and leaves food, health and hunt_days as they were.
C1_TravelContract ==
    (Applied("Travel") /\ U64Le(last.distance, prev.miles)) =>
        /\ ~panicked
        /\ state.miles = prev.miles - last.distance
        /\ state.date = prev.date + last.days
        /\ state.food = prev.food
        /\ state.health = prev.health
        /\ state.hunt_days = prev.hunt_days

C1_Witness ==
    /\ Applied("Travel") /\ ~panicked
    /\ prev = inital_state
    /\ last = Travel(3, 30)
    /\ state = MkState(ymd(2020, 3, 4), 1970, 500, 5, 2)

C3_HuntContract ==
    Applied("Hunt") =>
        /\ ~panicked
        /\ state.food = prev.food + 100
        /\ state.date = prev.date + prev.hunt_days
        /\ state.miles = prev.miles
        /\ state.health = prev.health
        /\ state.hunt_days = prev.hunt_days

C3_Witness ==
    /\ Applied("Hunt")
    /\ prev.hunt_days = 3 /\ prev.date = ymd(2020, 3, 1)
    /\ state.date = ymd(2020, 3, 4) /\ state.food = 600

\* C4: Status(f), Help(f) and Quit(f) call f exactly once, on the original
\* state, and return f's result; with the identity the result is the
\* original state.
C4_CallbackContract ==
    (Applied("Status") \/ Applied("Help") \/ Applied("Quit")) =>
        /\ ~panicked
        /\ Len(calls) = 1
        /\ calls[1] = [f |-> last.f, arg |-> prev]
        /\ state = CallCallback(last.f, prev)
        /\ last.f = "identity" => state = prev

C4_Witness ==
    /\ Applied("Quit") /\ last.f = "eat"
    /\ prev.food = 500 /\ state.food = 0
    /\ calls = <<[f |-> "eat", arg |-> prev]>>

\* C5: miles never leaves 0..2000 in the game, whatever distances are
\* travelled, a distance larger than the miles left included.
C5_MilesNeverUnderflow == state.miles \in 0 .. 2000

\* C6: in the game health stays within 0..5, and it is larger than in the
\* preceding state only after a Rest.
C6_HealthBounded ==
    /\ state.health \in 0 .. 5
    /\ state.health > prev.health => Applied("Rest")

C6_Witness ==
    /\ Applied("Rest") /\ reduced = 2
    /\ state.health = 5

\* C7: Rest(d) at health 4 returns the input state with only the date
\* changed (health still 4), as test_rest expects.
C7_RestChangesOnlyDate ==
    (Applied("Rest") /\ prev.health = 4) =>
        state = [prev EXCEPT !.date = prev.date + last.days]

\* C8: on the input line "travel" main dispatches exactly one Travel on the
\* initial state, of 3..6 days and 30..59 miles, and stops after its single
\* read: miles end in 1941..1970 and the date in 2020-03-04..2020-03-07.
C8_TravelDispatched ==
    (pc = "done" /\ read_ok /\ user_input = TravelLiteral) =>
        /\ ~panicked
        /\ reduced = 1
        /\ reads = 1
        /\ prev = inital_state
        /\ last.type = "Travel"
        /\ last.days \in 3 .. 6
        /\ last.distance \in 30 .. 59
        /\ state.miles \in 1941 .. 1970
        /\ state.date \in ymd(2020, 3, 4) .. ymd(2020, 3, 7)
        /\ state.food = 500 /\ state.health = 5 /\ state.hunt_days = 2
        /\ ~ENABLED NextMain

C8_Witness ==
    /\ pc = "done" /\ read_ok /\ user_input = TravelLiteral
    /\ last = Travel(6, 59)
    /\ state = MkState(ymd(2020, 3, 7), 1941, 500, 5, 2)

\* C9 as stated: after every Travel, Rest or Hunt the date is not earlier
\* than before.
C9_DateNeverDecreases ==
    (~panicked /\ (Applied("Travel") \/ Applied("Rest") \/ Applied("Hunt"))) =>
        state.date >= prev.date

\* C9 as amended: after a Travel or a Rest of a non-negative duration, and
\* after a Hunt in a state whose hunt_days is non-negative, the date is not
\* earlier than before.
C9_DateNeverDecreasesNonNegative ==
    /\ (~panicked /\ (Applied("Travel") \/ Applied("Rest")) /\ last.days >= 0) =>
           state.date >= prev.date
    /\ (~panicked /\ Applied("Hunt") /\ prev.hunt_days >= 0) =>
           state.date >= prev.date

C9_Witness ==
    /\ Applied("Hunt") /\ prev.hunt_days = 2
    /\ prev.date = ymd(2020, 12, 30) /\ state.date = ymd(2021, 1, 1)

\* C10: on a line that is not exactly "travel", and on a failed read, main
\* dispatches nothing: the reducer is not invoked, the store keeps the
\* initial state, one message is printed after the prompt and main ends.
C10_NoDispatchOnOtherInput ==
    (pc = "done" /\ (~read_ok \/ user_input # TravelLiteral)) =>
        /\ ~panicked
        /\ reduced = 0
        /\ last = NoAction
        /\ state = inital_state
        /\ Len(output) = 2
        /\ output[1] = Prompt
        /\ output[2] = IF read_ok THEN Unimplemented(user_input) ELSE ReadError
        /\ ~ENABLED NextMain

C10_Witness ==
    /\ pc = "done" /\ read_ok
    /\ user_input = TravelLiteral \o <<"\n">>
    /\ output = <<Prompt, Unimplemented(user_input)>>
    /\ state = inital_state

====
